---------------------------- MODULE Spec2Model ----------------------------
(***************************************************************************)
(* Model of the snake game: the game-state transition game.event and the   *)
(* concurrent Loop (input path on the calling goroutine, tick path on a    *)
(* second goroutine) of package internal.                                  *)
(***************************************************************************)
EXTENDS Integers, Sequences, FiniteSets, TLC

(***************************************************************************)
(* Bounds of the model.                                                    *)
(***************************************************************************)
\* Display size returned by s.Size() in the Loop specification: width, height.
GridW == 2
GridH == 2
\* Longest snake the Loop specification lets a tick produce.
MaxLen == 3
\* How many calls of g.event after the game is over the model follows.
MaxLate == 1
\* Inputs of the pure-function specification SpecEvent.
EvMaxDim == 3
EvMaxLen == 3

(***************************************************************************)
(* keyEvent: the iota constants.                                           *)
(***************************************************************************)
down == 0
up == 1
left == 2
right == 3
keyEvents == {down, up, left, right}

\* tcell keys that PollEvent can deliver, as far as Loop distinguishes them.
\* "Other" stands for every other key and every non-key event.
DirectionKeys == {"KeyDown", "KeyUp", "KeyLeft", "KeyRight"}
PollEvents == DirectionKeys \cup {"KeyCtrlC", "Other"}
\* The nil *tcell.EventKey.
nil == "nil"

\* directions map[tcell.Key]keyEvent.
directions ==
  [key \in DirectionKeys |->
     CASE key = "KeyDown" -> down
       [] key = "KeyUp" -> up
       [] key = "KeyLeft" -> left
       [] key = "KeyRight" -> right]

position(x, y) == [x |-> x, y |-> y]

(***************************************************************************)
(* game.event, step by step.                                               *)
(***************************************************************************)
\* for i := len-1; i > 0; i-- { snake[i] = snake[i-1] }
ShiftKeepsBody(s) == s
Shift(s) == [i \in 1..Len(s) |-> IF i = 1 THEN s[1] ELSE s[i - 1]]

\* switch k: the head alone moves.
MoveHead(p, k) ==
  CASE k = down -> [p EXCEPT !.y = @ + 1]
    [] k = up -> [p EXCEPT !.y = @ - 1]
    [] k = left -> [p EXCEPT !.x = @ - 1]
    [] k = right -> [p EXCEPT !.x = @ + 1]

\* Range check; rows and cols are what s.Size() returned: width and height.
OffScreenLax(p, rows, cols) == p.x < 0 \/ p.y < 0 \/ p.x > rows \/ p.y > cols
OffScreen(p, rows, cols) == p.x < 0 \/ p.y < 0 \/ p.x >= rows \/ p.y >= cols

\* The positions map: some position occurs twice in the snake.
RanIntoItself(s) == \E i, j \in 1..Len(s) : i < j /\ s[i] = s[j]

\* g.snake = append(g.snake, tail)
GrowTwice(s, tail) == Append(Append(s, tail), tail)
GrowDuplicatesTail(s, tail) == Append(s, s[Len(s)])
Grow(s, tail) == Append(s, tail)

\* delete(g.food, g.snake[0]); g.food[position{x, y}] = struct{}{}
ReplaceFoodKeep(f, head, x, y) == f \cup {position(x, y)}
ReplaceFood(f, head, x, y) == (f \ {head}) \cup {position(x, y)}

\* The whole method; x and y are the two rand.Intn draws (used when food is eaten).
game_event(s, f, k, rows, cols, x, y) ==
  LET tail == s[Len(s)]
      shifted == Shift(s)
      moved == [i \in 1..Len(s) |->
                  IF i = 1 THEN MoveHead(shifted[1], k) ELSE shifted[i]]
      head == moved[1]
  IN  IF OffScreen(head, rows, cols)
        THEN [snake |-> moved, food |-> f, ret |-> FALSE, ate |-> FALSE]
      ELSE IF RanIntoItself(moved)
        THEN [snake |-> moved, food |-> f, ret |-> FALSE, ate |-> FALSE]
      ELSE IF head \in f
        THEN [snake |-> Grow(moved, tail),
              food |-> ReplaceFood(f, head, x, y), ret |-> TRUE, ate |-> TRUE]
      ELSE [snake |-> moved, food |-> f, ret |-> TRUE, ate |-> FALSE]


(***************************************************************************)
(* State of Loop.                                                          *)
(*   snake, food      the game g (newGame)                                 *)
(*   size             what s.Size() returns, <<width, height>>             *)
(*   event, mu        the shared *tcell.EventKey and its mutex             *)
(*   finished, e      locals of the tick goroutine (e is nil out of scope)  *)
(*   polled           the key PollEvent returned that the input path is     *)
(*                    acting on (a direction key, or the quit key)          *)
(*   tpc, mpc         positions of the tick goroutine and of Loop itself   *)
(*   ctxDone          the context derived by context.WithCancel is done    *)
(*   cancelled        the context passed to Loop was cancelled             *)
(*   tickPending      a tick is buffered in ticker.C                       *)
(*   tickerStopped    ticker.Stop() has run                                *)
(*   screen           "none", "nonew" (NewScreen failed), "noinit" (s.Init  *)
(*                    failed), "init" (s.Init succeeded), "fini" (s.Fini)   *)
(*   frame            what the last s.Show() displayed                     *)
(*   result           what Loop returned: "none" (not yet), "nil", "err"   *)
(*   last             history: the most recent call of g.event             *)
(*   reads            history: tick reads of the current published key     *)
(*   late             history: calls of g.event made after finished was set *)
(***************************************************************************)
VARIABLES snake, food, size, event, mu, finished, e, polled, tpc, mpc,
          ctxDone, cancelled, tickPending, tickerStopped, screen, frame,
          result, last, reads, late

vars == <<snake, food, size, event, mu, finished, e, polled, tpc, mpc,
          ctxDone, cancelled, tickPending, tickerStopped, screen, frame,
          result, last, reads, late>>

gameVars == <<snake, food, last, late>>
sharedVars == <<event, mu, reads>>
ctlVars == <<ctxDone, cancelled, tickPending, tickerStopped, screen, result>>

\* newGame()
newGame == [snake |-> <<position(0, 0)>>, food |-> {position(0, 1)}]

noCall == [called |-> FALSE, ret |-> FALSE, ate |-> FALSE]

Init ==
  /\ snake = newGame.snake
  /\ food = newGame.food
  /\ size = <<GridW, GridH>>
  /\ event = nil
  /\ mu = "free"
  /\ finished = FALSE
  /\ e = nil
  /\ polled = nil
  /\ tpc = "idle"
  /\ mpc = "start"
  /\ ctxDone = FALSE
  /\ cancelled = FALSE
  /\ tickPending = FALSE
  /\ tickerStopped = FALSE
  /\ screen = "none"
  /\ frame = "none"
  /\ result = "none"
  /\ last = noCall
  /\ reads = 0
  /\ late = 0

(***************************************************************************)
(* Loop, the calling goroutine (input path).                               *)
(***************************************************************************)
\* tcell.NewScreen() fails: return the error; only cancel is deferred.
NewScreenFails ==
  /\ mpc = "start"
  /\ mpc' = "dcancel"
  /\ result' = "err"
  /\ screen' = "nonew"
  /\ UNCHANGED <<gameVars, size, sharedVars, finished, e, polled, tpc,
                 ctxDone, cancelled, tickPending, tickerStopped, frame>>

\* s.Init() fails: return the error; only cancel is deferred.
InitFailsSilently ==
  /\ mpc = "start"
  /\ mpc' = "dcancel"
  /\ result' = "nil"
  /\ screen' = "noinit"
  /\ UNCHANGED <<gameVars, size, sharedVars, finished, e, polled, tpc,
                 ctxDone, cancelled, tickPending, tickerStopped, frame>>
InitFails ==
  /\ mpc = "start"
  /\ mpc' = "dcancel"
  /\ result' = "err"
  /\ screen' = "noinit"
  /\ UNCHANGED <<gameVars, size, sharedVars, finished, e, polled, tpc,
                 ctxDone, cancelled, tickPending, tickerStopped, frame>>

\* Screen ready: newGame, the ticker, and the tick goroutine is started.
StartOk ==
  /\ mpc = "start"
  /\ mpc' = "select"
  /\ screen' = "init"
  /\ tpc' = "draw"
  /\ UNCHANGED <<gameVars, size, sharedVars, finished, e, polled,
                 ctxDone, cancelled, tickPending, tickerStopped, frame, result>>

\* select { case <-ctx.Done(): return nil; default: }
MainSelect ==
  /\ mpc = "select"
  /\ IF ctxDone
       THEN mpc' = "dstop" /\ result' = "nil"
       ELSE mpc' = "poll" /\ result' = result
  /\ UNCHANGED <<gameVars, size, sharedVars, finished, e, polled, tpc,
                 ctxDone, cancelled, tickPending, tickerStopped, screen, frame>>

\* What Loop does with the event PollEvent returned.
AfterPoll(ev) ==
  IF ev = "KeyCtrlC" THEN [pc |-> "dstop", result |-> "nil", polled |-> ev]
  ELSE IF ev \in DirectionKeys THEN [pc |-> "lock", result |-> "none", polled |-> ev]
  ELSE [pc |-> "select", result |-> "none", polled |-> nil]

\* e := s.PollEvent() returns ev, and the switch on it.
MainPoll(ev) ==
  /\ mpc = "poll"
  /\ mpc' = AfterPoll(ev).pc
  /\ result' = AfterPoll(ev).result
  /\ polled' = AfterPoll(ev).polled
  /\ UNCHANGED <<gameVars, size, sharedVars, finished, e, tpc,
                 ctxDone, cancelled, tickPending, tickerStopped, screen, frame>>

\* mu.Lock() of the input path.
MainLock ==
  /\ mpc = "lock"
  /\ mu = "free"
  /\ mu' = "main"
  /\ mpc' = "crit"
  /\ UNCHANGED <<gameVars, size, event, reads, finished, e, polled, tpc,
                 ctlVars, frame>>

\* event = e; mu.Unlock()
MainPublishKeepsUnread ==
  /\ mpc = "crit"
  /\ event' = IF event # nil /\ reads = 0 THEN event ELSE polled
  /\ reads' = 0
  /\ mu' = "free"
  /\ polled' = nil
  /\ mpc' = "select"
  /\ UNCHANGED <<gameVars, size, finished, e, tpc, ctlVars, frame>>
MainPublish ==
  /\ mpc = "crit"
  /\ event' = polled
  /\ reads' = 0
  /\ mu' = "free"
  /\ polled' = nil
  /\ mpc' = "select"
  /\ UNCHANGED <<gameVars, size, finished, e, tpc, ctlVars, frame>>

\* Deferred calls of a return after s.Init succeeded, last deferred first.
DeferTickerStop ==
  /\ mpc = "dstop"
  /\ tickerStopped' = TRUE
  /\ mpc' = "dfini"
  /\ UNCHANGED <<gameVars, size, sharedVars, finished, e, polled, tpc,
                 ctxDone, cancelled, tickPending, screen, frame, result>>

DeferFiniSkipped ==
  /\ mpc = "dfini"
  /\ mpc' = "dcancel"
  /\ UNCHANGED <<gameVars, size, sharedVars, finished, e, polled, tpc, ctxDone,
                 cancelled, tickPending, tickerStopped, screen, frame, result>>
DeferFini ==
  /\ mpc = "dfini"
  /\ screen' = "fini"
  /\ mpc' = "dcancel"
  /\ UNCHANGED <<gameVars, size, sharedVars, finished, e, polled, tpc,
                 ctxDone, cancelled, tickPending, tickerStopped, frame, result>>

DeferCancelKeepsContext ==
  /\ mpc = "dcancel"
  /\ mpc' = "done"
  /\ UNCHANGED <<gameVars, size, sharedVars, finished, e, polled, tpc, ctxDone,
                 cancelled, tickPending, tickerStopped, screen, frame, result>>
DeferCancel ==
  /\ mpc = "dcancel"
  /\ ctxDone' = TRUE
  /\ mpc' = "done"
  /\ UNCHANGED <<gameVars, size, sharedVars, finished, e, polled, tpc,
                 cancelled, tickPending, tickerStopped, screen, frame, result>>

(***************************************************************************)
(* The tick goroutine.                                                     *)
(***************************************************************************)
\* s.Clear(); drawText("game over") or g.drawGame(s); s.Show()
FrameLive(fin) == "game"
Frame(fin) == IF fin THEN "over" ELSE "game"

TickDraw ==
  /\ tpc = "draw"
  /\ frame' = Frame(finished)
  /\ tpc' = "wait"
  /\ UNCHANGED <<gameVars, size, sharedVars, finished, e, polled, mpc, ctlVars>>

\* select: case <-ctx.Done(): return
TickSeesDone ==
  /\ tpc = "wait"
  /\ ctxDone
  /\ tpc' = "done"
  /\ UNCHANGED <<gameVars, size, sharedVars, finished, e, polled, mpc,
                 ctlVars, frame>>

\* The model follows the game while no key can grow the snake beyond MaxLen
\* segments, and for MaxLate calls of g.event after the game is over.
Followed ==
  /\ finished => late < MaxLate
  /\ \A key \in DirectionKeys :
       Len(game_event(snake, food, directions[key], size[1], size[2], 0, 0).snake)
         <= MaxLen

\* select: case <-ticker.C:
TickSeesTick ==
  /\ tpc = "wait"
  /\ tickPending
  /\ Followed
  /\ tickPending' = FALSE
  /\ tpc' = "lock"
  /\ UNCHANGED <<gameVars, size, sharedVars, finished, e, polled, mpc,
                 ctxDone, cancelled, tickerStopped, screen, frame, result>>

\* mu.Lock() of the tick goroutine.
TickLockBarges ==
  /\ tpc = "lock"
  /\ mu' = "tick"
  /\ tpc' = "crit"
  /\ UNCHANGED <<gameVars, size, event, reads, finished, e, polled, mpc,
                 ctlVars, frame>>
TickLock ==
  /\ tpc = "lock"
  /\ mu = "free"
  /\ mu' = "tick"
  /\ tpc' = "crit"
  /\ UNCHANGED <<gameVars, size, event, reads, finished, e, polled, mpc,
                 ctlVars, frame>>

\* e := event: the local copy, and the shared value afterwards.
LoadConsuming(ev) == [e |-> ev, event |-> nil]
Load(ev) == [e |-> ev, event |-> ev]

\* reads tells never (0), once (1) and more than once (2) apart.
Bump(n) == IF n = 0 THEN 1 ELSE 2

\* e := event; mu.Unlock()
TickLoad ==
  /\ tpc = "crit"
  /\ e' = Load(event).e
  /\ event' = Load(event).event
  /\ reads' = IF event # nil THEN Bump(reads) ELSE reads
  /\ mu' = "free"
  /\ tpc' = "step"
  /\ UNCHANGED <<gameVars, size, finished, polled, mpc, ctlVars, frame>>

\* if e == nil { continue }
TickSkipMoves ==
  /\ tpc = "step"
  /\ e = nil
  /\ snake' = game_event(snake, food, down, size[1], size[2], 0, 0).snake
  /\ tpc' = "draw"
  /\ UNCHANGED <<food, last, late, size, sharedVars, finished, e, polled, mpc,
                 ctlVars, frame>>
TickSkip ==
  /\ tpc = "step"
  /\ e = nil
  /\ tpc' = "draw"
  /\ UNCHANGED <<gameVars, size, sharedVars, finished, e, polled, mpc,
                 ctlVars, frame>>

\* if !g.event(d, rows, cols) { finished = true }
FinishedFlip(fin, ret) == ~ret
Finished(fin, ret) == IF ~ret THEN TRUE ELSE fin

\* d := directions[e.Key()]; rows, cols := s.Size(); g.event(d, rows, cols)
TickEvent(x, y) ==
  /\ tpc = "step"
  /\ e # nil
  /\ LET rows == size[1]
         cols == size[2]
         r == game_event(snake, food, directions[e], rows, cols, x, y)
     IN  /\ snake' = r.snake
         /\ food' = r.food
         /\ finished' = Finished(finished, r.ret)
         /\ last' = [called |-> TRUE, ret |-> r.ret, ate |-> r.ate]
  /\ late' = IF finished THEN late + 1 ELSE late
  /\ e' = nil
  /\ tpc' = "draw"
  /\ UNCHANGED <<size, sharedVars, polled, mpc, ctlVars, frame>>

(***************************************************************************)
(* Environment: the ticker's timer and the caller of Loop.                 *)
(***************************************************************************)
\* The runtime timer sends on ticker.C (buffer of one; dropped when full).
TickerFire ==
  /\ mpc \in {"select", "poll", "lock", "crit", "dstop"}
  /\ ~tickerStopped
  /\ ~tickPending
  /\ tickPending' = TRUE
  /\ UNCHANGED <<gameVars, size, sharedVars, finished, e, polled, tpc, mpc,
                 ctxDone, cancelled, tickerStopped, screen, frame, result>>

\* The caller cancels the context it passed to Loop.
ParentCancel ==
  /\ ~cancelled
  /\ mpc # "done"
  /\ cancelled' = TRUE
  /\ ctxDone' = TRUE
  /\ UNCHANGED <<gameVars, size, sharedVars, finished, e, polled, tpc, mpc,
                 tickPending, tickerStopped, screen, frame, result>>

MainStep ==
  \/ NewScreenFails
  \/ InitFails
  \/ StartOk
  \/ MainSelect
  \/ MainLock
  \/ MainPublish
  \/ DeferTickerStop
  \/ DeferFini
  \/ DeferCancel

TickStep ==
  \/ TickDraw
  \/ TickSeesDone
  \/ TickSeesTick
  \/ TickLock
  \/ TickLoad
  \/ TickSkip
  \/ \E x \in 0..(size[1] - 1), y \in 0..(size[2] - 1) : TickEvent(x, y)

Next ==
  \/ MainStep
  \/ \E ev \in PollEvents : MainPoll(ev)
  \/ TickStep
  \/ TickerFire
  \/ ParentCancel

Spec == Init /\ [][Next]_vars

\* Scheduling: both goroutines keep running; PollEvent returns only when the
\* terminal delivers an event, and nobody has to cancel.
\* A select with both cases ready picks one at random, so the ctx.Done case is
\* not passed over for ever.
FairSpec ==
  /\ Spec
  /\ WF_vars(MainStep)
  /\ WF_vars(TickStep)
  /\ SF_vars(TickSeesDone)
  /\ WF_vars(TickerFire)

\* The scheduling the quit path relies on: both goroutines keep running.
FairQuit == Spec /\ WF_vars(MainStep) /\ WF_vars(TickStep)

TypeOK ==
  /\ event \in DirectionKeys \cup {nil}
  /\ e \in DirectionKeys \cup {nil}
  /\ mu \in {"free", "main", "tick"}
  /\ finished \in BOOLEAN
  /\ Len(snake) \in 1..MaxLen

(***************************************************************************)
(* game.event as a pure function: a second specification that starts from  *)
(* any snake of up to EvMaxLen adjacent cells on any grid of up to         *)
(* EvMaxDim x EvMaxDim cells, or from a snake of one or two cells on the   *)
(* 5x5 grid of the scenarios, and calls g.event once.                      *)
(***************************************************************************)
EvSizes == {<<w, h>> : w \in 1..EvMaxDim, h \in 1..EvMaxDim}

Cells(sz) == {position(x, y) : x \in 0..(sz[1] - 1), y \in 0..(sz[2] - 1)}

Adjacent(p, q) ==
  \/ p.x = q.x /\ (p.y = q.y + 1 \/ q.y = p.y + 1)
  \/ p.y = q.y /\ (p.x = q.x + 1 \/ q.x = p.x + 1)

\* The snakes of exactly n cells on the grid, each cell next to the one before.
RECURSIVE ChainsOfLen(_, _)
ChainsOfLen(n, sz) ==
  IF n = 1 THEN {<<c>> : c \in Cells(sz)}
  ELSE UNION {{Append(s, c) : c \in {d \in Cells(sz) : Adjacent(s[Len(s)], d)}} :
                s \in ChainsOfLen(n - 1, sz)}

Chains(sz, maxLen) == UNION {ChainsOfLen(n, sz) : n \in 1..maxLen}

\* The inputs: every small grid with every snake of up to EvMaxLen cells, and
\* the 5x5 grid of the scenarios with the snakes of one and two cells.
EvInputs ==
  {<<sz, s>> : sz \in {<<5, 5>>}, s \in Chains(<<5, 5>>, 2)}
    \cup UNION {{<<sz, s>> : s \in Chains(sz, EvMaxLen)} : sz \in EvSizes}

InitEvent ==
  /\ \E in \in EvInputs : size = in[1] /\ snake = in[2]
  /\ food \in {{c} : c \in Cells(size)}
  /\ event = nil
  /\ mu = "free"
  /\ finished = FALSE
  /\ e \in DirectionKeys
  /\ polled = nil
  /\ tpc = "idle"
  /\ mpc = "unit"
  /\ ctxDone = FALSE
  /\ cancelled = FALSE
  /\ tickPending = FALSE
  /\ tickerStopped = FALSE
  /\ screen = "none"
  /\ frame = "none"
  /\ result = "none"
  /\ last = noCall
  /\ reads = 0
  /\ late = 0

\* g.event(k, rows, cols), once.
CallEvent(k, x, y) ==
  /\ mpc = "unit"
  /\ ~last.called
  /\ LET r == game_event(snake, food, k, size[1], size[2], x, y)
     IN  /\ snake' = r.snake
         /\ food' = r.food
         /\ last' = [called |-> TRUE, ret |-> r.ret, ate |-> r.ate]
  /\ UNCHANGED <<size, sharedVars, finished, e, polled, tpc, mpc, ctlVars,
                 frame, late>>

\* The direction is the one of the key e, as in d := directions[e.Key()].
NextEvent ==
  \E x \in 0..(size[1] - 1), y \in 0..(size[2] - 1) :
    CallEvent(directions[e], x, y)

SpecEvent == InitEvent /\ [][NextEvent]_vars

(***************************************************************************)
(* Properties.                                                             *)
(***************************************************************************)
Distinct(s) == \A i, j \in 1..Len(s) : s[i] = s[j] => i = j
Occupied(s) == {s[i] : i \in 1..Len(s)}
InsideGrid(p) == p.x \in 0..(size[1] - 1) /\ p.y \in 0..(size[2] - 1)
\* This step is a call of g.event.
EventCalled == last'.called /\ (snake' # snake \/ ~last.called)

\* C1: while LoopStatus is running (finished is false) the snake has at least
\* one segment and no two segments at the same position.
C1_RunningSnakeDistinct == ~finished => (Len(snake) >= 1 /\ Distinct(snake))

\* C2: a call of g.event that leaves the head outside [0,width) x [0,height)
\* returned false, whatever the snake, the direction and the grid size.
C2_OffGridReturnsFalse ==
  (last.called /\ ~InsideGrid(snake[1])) => ~last.ret

\* C2 witness: snake [(0,0)], direction up, on the 5x5 grid: the head is at
\* (0,-1) and the call returned false.
C2_Witness ==
  /\ size = <<5, 5>>
  /\ last.called
  /\ snake = <<position(0, 0 - 1)>>
  /\ ~last.ret

\* C3: a call of g.event that returns true on a snake of N segments leaves
\* N + 1 segments when the new head is on a food position and N otherwise.
C3_GrowthByOne ==
  [][(EventCalled /\ last'.ret) =>
       Len(snake') = Len(snake) + (IF snake'[1] \in food THEN 1 ELSE 0)]_vars

\* C3 witness: a call that ate food and returned true, on a snake that had
\* more than one segment.
C3_Witness == last.called /\ last.ret /\ last.ate /\ Len(snake) >= 3

\* C5: a call of g.event that moves the head onto a cell the snake (with all
\* positions distinct) occupied before the move returns false.
C5_NoMoveOntoOwnCell ==
  [][(EventCalled /\ Distinct(snake) /\ snake'[1] \in Occupied(snake))
       => ~last'.ret]_vars

\* C6: the food set holds exactly one position in every reachable state.
C6_OneFood == Cardinality(food) = 1

\* C6 witness: food was eaten and the newly drawn position is the consumed one
\* (the cell the head is on).
C6_Witness == last.called /\ last.ate /\ food = {snake[1]}

TickLoaded == tpc = "crit" /\ tpc' = "step"

C7_CancelStopsLoop == cancelled ~> (mpc = "done" /\ tpc \in {"idle", "done"})

\* C8: once a transition has returned false, no tick calls g.event again and
\* snake and food stay as they were.
C8_FrozenAfterEnd ==
  [][finished => (~EventCalled /\ snake' = snake /\ food' = food)]_vars

\* C9: finished goes from false to true exactly in a step where g.event
\* returns false, a call returns false only with the head off the grid or a
\* repeated position in the snake, and finished never goes back to false.
C9_EndedIsTerminal ==
  [][/\ finished => finished'
     /\ (~finished /\ finished') <=> (~finished /\ EventCalled /\ ~last'.ret)
     /\ (EventCalled /\ ~last'.ret)
          => (~InsideGrid(snake'[1]) \/ ~Distinct(snake'))]_vars

\* C9 witness: the game has ended and a later call of g.event returned true.
C9_Witness == finished /\ late >= 1 /\ last.ret

\* C10: Loop returns an error exactly when NewScreen or s.Init failed, and
\* then the tick goroutine was never started and g.event never called; every
\* other return is nil and follows the quit key or a done context; the end of
\* the game alone does not make Loop return.
C10_ErrorOnlyFromInit ==
  /\ result = "err" <=> screen \in {"nonew", "noinit"}
  /\ result = "err" => (tpc = "idle" /\ ~last.called /\ frame = "none")
  /\ result = "nil" => (screen \in {"init", "fini"}
                          /\ (polled = "KeyCtrlC" \/ ctxDone))
  /\ mpc = "done" => result # "none"
  /\ (finished /\ ~ctxDone /\ polled # "KeyCtrlC") => result = "none"

\* C10 witness: Loop has returned nil on the quit key after the game ended.
C10_Witness ==
  /\ mpc = "done"
  /\ result = "nil"
  /\ finished
  /\ polled = "KeyCtrlC"
  /\ ~cancelled

\* C11: once the input path has polled the quit key, Loop returns nil and the
\* tick goroutine stops, whether the game is running or has ended.
C11_QuitStopsLoop ==
  (polled = "KeyCtrlC") ~> (mpc = "done" /\ result = "nil" /\ tpc = "done")

\* C11 witness: the quit key came while the game was running and a tick was
\* under way; Loop has returned and the tick goroutine has stopped.
C11_Witness ==
  /\ polled = "KeyCtrlC"
  /\ ~cancelled
  /\ ~finished
  /\ last.called
  /\ mpc = "done"
  /\ tpc = "done"

\* C12: until a direction key has been published (event is still nil) no tick
\* calls g.event: snake and food are those of newGame and finished is false;
\* only direction keys are ever published or handed to g.event.
C12_NoInputNoTransition ==
  /\ event = nil =>
       /\ snake = newGame.snake
       /\ food = newGame.food
       /\ ~finished
       /\ ~last.called
       /\ e = nil
  /\ event \in DirectionKeys \cup {nil}
  /\ e \in DirectionKeys \cup {nil}

\* C12 witness: a whole tick has passed with nothing published; the tick
\* goroutine has drawn the live game and is back at its next draw.
C12_Witness ==
  /\ event = nil
  /\ frame = "game"
  /\ tpc = "draw"
  /\ mpc = "poll"

\* This step is the input path storing the polled key in event.
Published == mpc = "crit" /\ mpc' = "select"

\* Where a head at p goes for a direction key.
KeyTarget(p, key) ==
  CASE key = "KeyDown" -> position(p.x, p.y + 1)
    [] key = "KeyUp" -> position(p.x, p.y - 1)
    [] key = "KeyLeft" -> position(p.x - 1, p.y)
    [] key = "KeyRight" -> position(p.x + 1, p.y)

\* C13: event holds one direction only: each publish overwrites it with the
\* key just polled, nothing else changes it, a tick reads the value stored
\* last, and the transition of that tick moves the head in that direction.
C13_LastPublishedWins ==
  [][/\ Published => (event' = polled /\ polled \in DirectionKeys)
     /\ event' # event => Published
     /\ TickLoaded => e' = event
     /\ (tpc = "step" /\ tpc' = "draw" /\ e # nil)
          => (EventCalled /\ snake'[1] = KeyTarget(snake[1], e))]_vars

\* C13 witness: a published direction has not been read by any tick, the tick
\* goroutine waits for its ticker, and the input path holds the mutex to
\* store a different direction over it.
C13_Witness ==
  /\ mpc = "crit"
  /\ event # nil
  /\ reads = 0
  /\ polled # event
  /\ tpc = "wait"
  /\ last.called

\* C14: the mutex is held by the tick goroutine exactly between mu.Lock and
\* mu.Unlock around e := event, and by the input path exactly around
\* event = ev; so never by both, and never by the tick goroutine while it
\* draws, waits for the ticker, reads the size or calls g.event.
C14_MutexDiscipline ==
  /\ mu = "tick" <=> tpc = "crit"
  /\ mu = "main" <=> mpc = "crit"
  /\ ~(tpc = "crit" /\ mpc = "crit")
  /\ tpc \in {"draw", "wait", "step"} => mu # "tick"

\* C14 witness: the tick goroutine holds the mutex while the input path is
\* at mu.Lock with a key to publish.
C14_Witness == mu = "tick" /\ tpc = "crit" /\ mpc = "lock"

\* C15: a call of g.event that returns true without eating, on a snake of N
\* segments: the head has moved one cell in the direction asked for (down
\* y+1, up y-1, left x-1, right x+1), every other segment has taken the place
\* of the one before it, the length is still N and the food is unchanged.
C15_PlainMove ==
  [][(EventCalled /\ last'.ret /\ ~last'.ate) =>
       /\ snake'[1] = KeyTarget(snake[1], e)
       /\ Len(snake') = Len(snake)
       /\ \A i \in 2..Len(snake) : snake'[i] = snake[i - 1]
       /\ food' = food]_vars

\* C15 witness: a snake of three segments has moved left without eating.
C15_Witness ==
  /\ last.called
  /\ last.ret
  /\ ~last.ate
  /\ e = "KeyLeft"
  /\ Len(snake) = 3
  /\ snake[2] = position(snake[1].x + 1, snake[1].y)

\* C16: a call of g.event that eats appends, as last segment, the tail
\* position from before the move, which is not the position of the segment
\* now in front of it; from snake [(0,0)], food {(0,1)}, 5x5, down, the call
\* returns true with snake [(0,1),(0,0)] and one food position on the grid.
C16_GrowthAppendsOldTail ==
  [][EventCalled =>
       /\ last'.ate =>
            /\ last'.ret
            /\ snake'[1] \in food
            /\ Len(snake') = Len(snake) + 1
            /\ snake'[Len(snake')] = snake[Len(snake)]
            /\ snake'[Len(snake')] # snake'[Len(snake') - 1]
       /\ (/\ size = <<5, 5>>
           /\ snake = <<position(0, 0)>>
           /\ food = {position(0, 1)}
           /\ e = "KeyDown") =>
            /\ last'.ret
            /\ last'.ate
            /\ snake' = <<position(0, 1), position(0, 0)>>
            /\ Cardinality(food') = 1
            /\ food' \subseteq Cells(size)]_vars

\* C16 witness: the scenario's result: on the 5x5 grid the one-cell snake has
\* eaten at (0,1) going down and has (0,0) as its second segment.
C16_Witness ==
  /\ size = <<5, 5>>
  /\ e = "KeyDown"
  /\ last.called
  /\ last.ret
  /\ last.ate
  /\ snake = <<position(0, 1), position(0, 0)>>
  /\ food = {position(3, 4)}

\* C17: while finished is false every segment of the snake, the head, the
\* body and a segment appended by growth, is inside [0,width) x [0,height).
C17_RunningInsideGrid ==
  ~finished => \A i \in 1..Len(snake) : InsideGrid(snake[i])

\* C17 witness: the game is running and the snake has just grown to MaxLen
\* segments.
C17_Witness == ~finished /\ last.called /\ last.ate /\ Len(snake) = MaxLen

\* C18: what the tick goroutine has drawn last is the game-over text once
\* g.event has returned false and the goroutine has drawn since, and it is
\* the live game as long as no call has returned false.
C18_RenderFollowsFinished ==
  /\ frame = "over" => finished
  /\ (~finished /\ frame # "none") => frame = "game"
  /\ (finished /\ tpc \in {"wait", "lock", "crit", "step", "done"})
       => frame = "over"

\* C18 witness: after the end of the game a call of g.event has shifted the
\* snake again, and the draw that followed showed the game-over text.
C18_Witness ==
  /\ finished
  /\ late >= 1
  /\ tpc = "wait"
  /\ frame = "over"
  /\ ~Distinct(snake)

\* C19: when Loop has returned after s.Init succeeded (it returns nil), on
\* the quit key or on a done context, with the game running or over,
\* ticker.Stop and s.Fini have run.
C19_CleanupOnExit ==
  (mpc = "done" /\ result = "nil") => (tickerStopped /\ screen = "fini")

\* C19 witness: Loop has returned because the context was cancelled, after
\* the end of the game.
C19_Witness ==
  /\ mpc = "done"
  /\ result = "nil"
  /\ cancelled
  /\ polled # "KeyCtrlC"
  /\ finished

\* C20: after s.Fini the tick goroutine neither draws (Clear, SetContent,
\* Show) nor runs the step that reads s.Size and calls g.event.
C20_NoDisplayUseAfterFini ==
  [][screen = "fini" =>
       (~(tpc = "draw" /\ tpc' = "wait") /\ ~EventCalled)]_vars

=============================================================================
